---- MODULE Spec2Model ----
(***************************************************************************)
(* Model of public/js/src/module/form-cache.js: the offline form cache.    *)
(*                                                                         *)
(* JavaScript runs the module on one thread; every action below is one    *)
(* callback run by the event loop (a call of an exported function by the  *)
(* host page, the settlement of a store or network promise, or a timer).  *)
(* The store and the connection are other modules: what they answer is a  *)
(* nondeterministic choice among the outcomes their contract allows.      *)
(***************************************************************************)
EXTENDS Integers, Sequences, FiniteSets, Bags, TLC

\* ---------------------------------------------------------------- bounds
MaxInits == 2        \* init() calls that get as far as arming timers
MaxTicks == 2        \* _updateCache runs that can be in flight at once
MaxSizeBound == 1    \* largest maximum submission size the server reports

\* ------------------------------------------------------------ value sets
Ids == {"s1"}                   \* enketoId of the survey the host opens
Undefined == "undefined"        \* the JavaScript value undefined
Keys == Ids \cup {Undefined}    \* what a store request can be keyed by
Hashes == {"h1", "h2"}          \* version tokens the server hands out
Sources == {"A", "B"}           \* media URLs that occur in the forms

Absent == [kind |-> "absent"]                 \* store.survey.get found nothing
Unresolved == [resolved |-> FALSE, list |-> <<>>]   \* survey.resources === undefined
Resolved(l) == [resolved |-> TRUE, list |-> l]      \* survey.resources is an array

\* A form definition is the sequence of its src attributes; each one is the
\* text  data-offline-...data-offline-src="url"  with pre prefixes.
Attr(p, u) == [pre |-> p, url |-> u]

\* connection: what the server holds for a version of a form
ServerForm(h) ==
    IF h = "h1" THEN << Attr(0, "A"), Attr(0, "A"), Attr(0, "B") >>
                ELSE << Attr(0, "B") >>

\* a value handed along a promise chain: a Survey object or a bare token
Token(h) == [kind |-> "token", tok |-> h]
IsSurvey(v) == v.kind = "survey"

\* JavaScript property reads: v.enketoId and v.hash are undefined on a string
EnketoIdOf(v) == IF IsSurvey(v) THEN v.enketoId ELSE Undefined
HashOf(v) == IF IsSurvey(v) THEN v.hash ELSE Undefined

\* the survey object the host passes to init(): only its identity is used
HostSurvey(id) ==
    [kind |-> "survey", enketoId |-> id, form |-> <<>>,
     hash |-> Undefined, resources |-> Unresolved]

\* ------------------------------------------------------------ connection
\* connection.getFormParts( survey ) when it succeeds with version h
getFormParts(v, h) ==
    [kind |-> "survey", enketoId |-> EnketoIdOf(v), form |-> ServerForm(h),
     hash |-> h, resources |-> Unresolved]

\* connection.getFormPartsHash( survey ) when it succeeds with version h
getFormPartsHash(v, h) == Token(h)

\* ----------------------------------------------------------------- store
\* store.survey.set( survey ) / store.survey.update( survey ): write the
\* record under its key and resolve with it
StoreSet(st, rec) == [st EXCEPT ![rec.enketoId] = rec]
StoreUpdate(st, rec) == [st EXCEPT ![rec.enketoId] = rec]
\* store.survey.remove( id ), store.survey.removeAll()
StoreRemove(st, id) == [st EXCEPT ![id] = Absent]
StoreRemoveAll(st) == [k \in Keys |-> Absent]

\* -------------------------------------------------- _swapMediaSrc (84-88)
\* survey.form.replace( /(src=\"[^"]*\")/g, 'data-offline-$1 src=""' )
\* every  src="url"  becomes  data-offline-src="url" src=""  ; the pattern
\* is not anchored, so it also matches the tail of  data-offline-src="url"
RECURSIVE Replace(_)
Replace(form) ==
    IF form = <<>> THEN <<>>
    ELSE << Attr(Head(form).pre + 1, Head(form).url), Attr(0, "") >>
         \o Replace(Tail(form))

\* the form goes to the store as the server sent it
_swapMediaSrcNone(survey) == survey

_swapMediaSrc(survey) == [survey EXCEPT !.form = Replace(survey.form)]

\* ------------------------------------------------------------------ state
VARIABLES
    store,    \* store.survey: key -> record or Absent
    hash,     \* the module variable  var hash  (line 11)
    timers,   \* one entry per _setUpdateIntervals call: its timers/listener
    ticks,    \* the bag of _updateCache runs that have not settled
    host,     \* the exported function the host page is running, if any
    surv,     \* the Survey object the host page holds in memory
    dom,      \* the render target: marked elements, their src, lookups
    out       \* what the latest callback logged, and the events it triggered

vars == << store, hash, timers, ticks, host, surv, dom, out >>

Done == [pc |-> "done"]           \* a run of _updateCache that is over
NoDom == [id |-> Undefined, els |-> <<>>, src |-> <<>>, pending |-> {},
          created |-> <<>>]
Idle == [op |-> "none", pc |-> "idle"]

InFlight == BagToSet(ticks)

\* each public operation is awaited before the host issues the next one
HostIdle == host.pc \in {"idle", "resolved", "rejected"}

Init ==
    /\ store = [k \in Keys |-> Absent]
    /\ hash = Undefined
    /\ timers = <<>>
    /\ ticks = EmptyBag
    /\ host = Idle
    /\ surv = Absent
    /\ dom = NoDom
    /\ out = <<>>

\* a callback that logs nothing and triggers no event
Quiet == out' = <<>>

\* ============================================================ init (13-28)
\* init( survey ): store.init() is pending
InitCall(id) ==
    /\ HostIdle
    /\ Len(timers) < MaxInits
    /\ host' = [op |-> "init", pc |-> "storeinit", survey |-> HostSurvey(id),
                val |-> HostSurvey(id), hit |-> FALSE,
                nFP |-> 0, nHash |-> 0, nSet |-> 0, order |-> <<>>]
    /\ UNCHANGED << store, hash, timers, ticks, surv, dom >>
    /\ Quiet

\* store.init() settles; on success get( survey ) is issued (14-17)
InitStoreInit(ok) ==
    /\ host.op = "init" /\ host.pc = "storeinit"
    /\ host' = [host EXCEPT !.pc = IF ok THEN "get" ELSE "rejected"]
    /\ UNCHANGED << store, hash, timers, ticks, surv, dom >>
    /\ Quiet

\* get( survey ) == store.survey.get( survey.enketoId ) settles (18-24, 30-32)
\* a record: pass it on and ask for the hash; nothing: set( survey ) asks
\* for the form parts
InitGet(ok) ==
    /\ host.op = "init" /\ host.pc = "get"
    /\ IF ~ok THEN host' = [host EXCEPT !.pc = "rejected"]
       ELSE LET result == store[host.survey.enketoId] IN
            IF result # Absent
            THEN host' = [host EXCEPT !.pc = "hashreq", !.val = result,
                                      !.hit = TRUE,
                                      !.nHash = @ + 1,
                                      !.order = Append(@, "getFormPartsHash")]
            ELSE host' = [host EXCEPT !.pc = "fetch", !.nFP = @ + 1,
                                      !.order = Append(@, "getFormParts")]
    /\ UNCHANGED << store, hash, timers, ticks, surv, dom >>
    /\ Quiet

\* set( survey ): connection.getFormParts settles, then _swapMediaSrc, then
\* store.survey.set is issued (34-38)
InitFetch(ok, h) ==
    /\ host.op = "init" /\ host.pc = "fetch"
    /\ IF ok
       THEN host' = [host EXCEPT !.pc = "persist",
                        !.val = _swapMediaSrc(getFormParts(host.survey, h))]
       ELSE host' = [host EXCEPT !.pc = "rejected"]
    /\ UNCHANGED << store, hash, timers, ticks, surv, dom >>
    /\ Quiet

\* store.survey.set settles; on success _transformRequest asks for the hash
\* (37, 25, 44-46)
InitPersist(ok) ==
    /\ host.op = "init" /\ host.pc = "persist"
    /\ IF ok
       THEN /\ store' = StoreSet(store, host.val)
            /\ host' = [host EXCEPT !.pc = "hashreq", !.nSet = @ + 1,
                                    !.nHash = @ + 1,
                                    !.order = @ \o << "set", "getFormPartsHash" >>]
       ELSE /\ host' = [host EXCEPT !.pc = "rejected"]
            /\ UNCHANGED store
    /\ UNCHANGED << hash, timers, ticks, surv, dom >>
    /\ Quiet

\* the hash request is asked again when it fails, instead of rejecting
InitTransformRequestRetry(ok, h) ==
    /\ host.op = "init" /\ host.pc = "hashreq"
    /\ IF ok
       THEN host' = [host EXCEPT !.pc = "arm", !.val = Token(h)]
       ELSE host' = [host EXCEPT !.nHash = 2,
                                 !.order = IF host.nHash = 1
                                           THEN Append(@, "getFormPartsHash") ELSE @]
    /\ UNCHANGED << store, hash, timers, ticks, surv, dom >>
    /\ Quiet

\* _transformRequest: connection.getFormPartsHash( survey, true ) settles
\* and its result is what the chain carries on (25, 44-46)
InitTransformRequest(ok, h) ==
    /\ host.op = "init" /\ host.pc = "hashreq"
    /\ IF ok
       THEN host' = [host EXCEPT !.pc = "arm", !.val = getFormPartsHash(host.val, h)]
       ELSE host' = [host EXCEPT !.pc = "rejected"]
    /\ UNCHANGED << store, hash, timers, ticks, surv, dom >>
    /\ Quiet

\* the timers and the listener are handed the survey's stored record
InitArmSurvey ==
    /\ host.op = "init" /\ host.pc = "arm"
    /\ hash' = HashOf(store[host.survey.enketoId])
    /\ timers' = Append(timers, [arg |-> store[host.survey.enketoId],
                                 sid |-> host.survey.enketoId,
                                 timeout |-> TRUE, interval |-> TRUE,
                                 listener |-> TRUE])
    /\ host' = [host EXCEPT !.pc = "resolved"]
    /\ UNCHANGED << store, ticks, surv, dom >>
    /\ Quiet

\* _setUpdateIntervals then _setResetListener, then init's promise resolves
\* (26-27, 48-82): hash = survey.hash, one setTimeout and one setInterval
\* on _updateCache( survey ), one formreset listener holding survey
InitArm ==
    /\ host.op = "init" /\ host.pc = "arm"
    /\ hash' = HashOf(host.val)
    /\ timers' = Append(timers, [arg |-> host.val,
                                 sid |-> host.survey.enketoId,
                                 timeout |-> TRUE, interval |-> TRUE,
                                 listener |-> TRUE])
    /\ host' = [host EXCEPT !.pc = "resolved"]
    /\ UNCHANGED << store, ticks, surv, dom >>
    /\ Quiet

\* ================================================== _updateCache (227-269)
\* the survey a run of _updateCache was handed, and the survey init was
\* called with when it armed that timer
ArgOf(t) == timers[t.mon].arg
SidOf(t) == timers[t.mon].sid

\* the runs in flight once run t has moved on to u
Step(t, u) ==
    IF u = Done THEN ticks (-) SetToBag({t})
                ELSE (ticks (-) SetToBag({t})) (+) SetToBag({u})

\* a timer of entry m fires: _updateCache( survey ) issues
\* connection.getFormPartsHash( survey ) (55-61, 231)
TickStart(m, viaTimeout) ==
    /\ BagCardinality(ticks) < MaxTicks
    /\ m \in 1..Len(timers)
    /\ IF viaTimeout
       THEN /\ timers[m].timeout
            /\ timers' = [timers EXCEPT ![m].timeout = FALSE]
       ELSE /\ timers[m].interval
            /\ UNCHANGED timers
    /\ ticks' = ticks (+) SetToBag({[pc |-> "hash", mon |-> m]})
    /\ UNCHANGED << store, hash, host, surv, dom >>
    /\ Quiet

\* the catch of _updateCache (253-268): status 404 -> remove( survey ) is
\* issued, anything else is logged and the run is over
Catch(t, status) ==
    IF status = "404" THEN [pc |-> "remove", mon |-> t.mon]
                      ELSE Done
CatchLog(status) ==
    IF status = "404" THEN <<>> ELSE << "Could not obtain latest survey" >>

\* the hash request of a run settles (232-237): equal to the module's hash
\* -> done, else connection.getFormParts( survey ) is issued
TickHash(outcome, version) ==
    \E t \in InFlight :
    /\ t.pc = "hash"
    /\ LET rec == store[SidOf(t)]
       IN  IF outcome # "ok"
           THEN /\ ticks' = Step(t, Catch(t, outcome))
                /\ out' = CatchLog(outcome)
           ELSE IF hash = version
           THEN /\ ticks' = Step(t, Done)
                /\ out' = << "Cached survey is up to date!" >>
           ELSE /\ ticks' = Step(t, [pc |-> "fetch", mon |-> t.mon,
                       matched |-> (rec # Absent /\ rec.hash = version)])
                /\ out' = << "Cached survey is outdated!" >>
    /\ UNCHANGED << store, hash, timers, host, surv, dom >>

\* connection.getFormParts settles; resources = undefined, _swapMediaSrc,
\* then store.survey.update is issued (237-244)
TickFetch(outcome, h) ==
    \E t \in InFlight :
    /\ t.pc = "fetch"
    /\ IF outcome # "ok"
       THEN /\ ticks' = Step(t, Catch(t, outcome))
            /\ out' = CatchLog(outcome)
       ELSE /\ ticks' = Step(t,
                  [pc |-> "persist", mon |-> t.mon, matched |-> t.matched,
                   parts |-> _swapMediaSrc(
                      [getFormParts(ArgOf(t), h) EXCEPT !.resources = Unresolved])])
            /\ Quiet
    /\ UNCHANGED << store, hash, timers, host, surv, dom >>

\* store.survey.update settles; hash = result.hash and 'formupdated' is
\* triggered (244-250); a rejection goes to the catch
TickPersist(ok) ==
    \E t \in InFlight :
    /\ t.pc = "persist"
    /\ IF ok
       THEN /\ store' = StoreUpdate(store, t.parts)
            /\ hash' = t.parts.hash
            /\ out' = << "Survey is now updated in the store", "formupdated" >>
            /\ ticks' = Step(t, Done)
       ELSE /\ ticks' = Step(t, Catch(t, "error"))
            /\ out' = CatchLog("error")
            /\ UNCHANGED << store, hash >>
    /\ UNCHANGED << timers, host, surv, dom >>

\* remove( survey ) == store.survey.remove( survey.enketoId ) settles
\* (40-42, 257-264)
TickRemove(ok) ==
    \E t \in InFlight :
    /\ t.pc = "remove"
    /\ IF ok
       THEN /\ store' = StoreRemove(store, EnketoIdOf(ArgOf(t)))
            /\ out' = << "removed from storage" >>
       ELSE /\ UNCHANGED store
            /\ out' = << "an error occurred when attempting to remove" >>
    /\ ticks' = Step(t, Done)
    /\ UNCHANGED << hash, timers, host, surv, dom >>

\* =========================================== updateMaxSubmissionSize (99-110)
\* survey.maxSize: never set, or a number
NoSize == [set |-> FALSE, value |-> 0]
Size(n) == [set |-> TRUE, value |-> n]
\* JavaScript  !survey.maxSize
Not(ms) == ~ms.set \/ ms.value = 0

\* updateMaxSubmissionSize( survey ) with survey.maxSize = ms (101-109)
MaxCall(ms) ==
    /\ HostIdle
    /\ host' = [op |-> "max", given |-> ms, maxSize |-> ms,
                pc |-> IF Not(ms) THEN "sizereq" ELSE "resolved",
                nMax |-> IF Not(ms) THEN 1 ELSE 0]
    /\ UNCHANGED << store, hash, timers, ticks, surv, dom >>
    /\ Quiet

\* connection.getMaximumSubmissionSize() settles (102-106)
MaxSize(ok, n) ==
    /\ host.op = "max" /\ host.pc = "sizereq"
    /\ host' = IF ok THEN [host EXCEPT !.pc = "resolved", !.maxSize = Size(n)]
                     ELSE [host EXCEPT !.pc = "rejected"]
    /\ UNCHANGED << store, hash, timers, ticks, surv, dom >>
    /\ Quiet

\* ================================================================ get (30-32)
\* get( survey ) resolves: the host page now holds the stored record
HostGet(id, ok) ==
    /\ HostIdle
    /\ host' = [op |-> "get", pc |-> IF ok THEN "resolved" ELSE "rejected"]
    /\ surv' = IF ok THEN store[id] ELSE surv
    /\ UNCHANGED << store, hash, timers, ticks, dom >>
    /\ Quiet

\* ============================================================= remove (40-42)
\* remove( survey ) == store.survey.remove( survey.enketoId ) settles
HostRemove(id, ok) ==
    /\ HostIdle
    /\ host' = [op |-> "remove", pc |-> IF ok THEN "resolved" ELSE "rejected",
                survey |-> HostSurvey(id)]
    /\ store' = IF ok THEN StoreRemove(store, id) ELSE store
    /\ UNCHANGED << hash, timers, ticks, surv, dom >>
    /\ Quiet

\* ============================================================ flush (276-282)
\* flush(): store.survey.removeAll() settles
HostFlush(ok) ==
    /\ HostIdle
    /\ host' = [op |-> "flush", pc |-> IF ok THEN "resolved" ELSE "rejected"]
    /\ store' = IF ok THEN StoreRemoveAll(store) ELSE store
    /\ out' = IF ok THEN << "Done! The form cache is empty now." >> ELSE <<>>
    /\ UNCHANGED << hash, timers, ticks, surv, dom >>

\* ============================================ _getElementsGroupedBySrc (203-225)
\* the elements with a data-offline-src attribute that a form renders
RECURSIVE Markers(_)
Markers(form) ==
    IF form = <<>> THEN <<>>
    ELSE (IF Head(form).pre = 1 THEN << Head(form).url >> ELSE <<>>)
         \o Markers(Tail(form))

\* every element is a group of its own, whatever src it has
GroupFromAll(els, k, urls, rest) ==
    [i \in 1..(Len(els) - k + 1) |-> << i + k - 1 >>]

\* $els.each: an element whose src is not in urls yet starts a group of the
\* elements left in $els with that src, which are then taken out of $els
RECURSIVE GroupFrom(_, _, _, _)
GroupFrom(els, k, urls, rest) ==
    IF k > Len(els) THEN <<>>
    ELSE IF els[k] \in urls THEN GroupFrom(els, k + 1, urls, rest)
    ELSE LET src == els[k]
             group == SelectSeq([i \in 1..Len(els) |-> i],
                                LAMBDA i : i \in rest /\ els[i] = src)
         IN  << group >> \o
             GroupFrom(els, k + 1, urls \cup {src},
                       {i \in rest : els[i] # src})

_getElementsGroupedBySrc(els) == GroupFrom(els, 1, {}, 1..Len(els))

\* elements[ 0 ].dataset.offlineSrc of every group (129, 175)
GroupSrcs(els) ==
    LET g == _getElementsGroupedBySrc(els)
    IN  [k \in 1..Len(g) |-> els[g[k][1]]]

\* ======================================================= _loadMedia (170-201)
NoResource == [kind |-> "undefined"]
Resource(src) == [kind |-> "resource", url |-> src, item |-> "blob"]

\* store.survey.resource.get( id, src ): the resource stored with the
\* survey under that url, if any
StoreResourceGet(st, id, src) ==
    IF st[id] = Absent \/ ~st[id].resources.resolved THEN NoResource
    ELSE LET l == SelectSeq(st[id].resources.list, LAMBDA r : r.url = src)
         IN  IF l = <<>> THEN NoResource ELSE l[1]

\* _loadMedia( survey ) goes over the groups and issues one lookup each
LoadMedia(survey, d) ==
    [d EXCEPT !.id = survey.enketoId,
              !.pending = {GroupSrcs(d.els)[k] : k \in 1..Len(GroupSrcs(d.els))}]

\* every element of the group gets an object URL of its own
BindPerElement(src, ok) ==
    /\ src \in dom.pending
    /\ LET resource == StoreResourceGet(store, dom.id, src)
           group == SelectSeq([i \in 1..Len(dom.els) |-> i],
                              LAMBDA i : dom.els[i] = src)
       IN
       IF ~ok
       THEN /\ dom' = [dom EXCEPT !.pending = @ \ {src}]
            /\ out' = << "Uncaught (in promise)" >>
       ELSE IF resource = NoResource \/ resource.item = Undefined
       THEN /\ dom' = [dom EXCEPT !.pending = @ \ {src}]
            /\ out' = << "resource not found or not complete" >>
       ELSE /\ dom' = [dom EXCEPT !.pending = @ \ {src},
                        !.created = @ \o [k \in 1..Len(group) |-> src],
                        !.src = [i \in 1..Len(dom.els) |->
                                   IF dom.els[i] = src
                                   THEN Len(dom.created) +
                                        Cardinality({j \in 1..i : dom.els[j] = src})
                                   ELSE @[i]]]
            /\ Quiet
    /\ UNCHANGED << store, hash, timers, ticks, host, surv >>

\* one lookup settles (179-190): a complete resource gets one object URL,
\* assigned to every element of the group; none or an incomplete one is
\* logged; a lookup that rejects has no handler and is reported by the
\* runtime as an unhandled rejection
Bind(src, ok) ==
    /\ src \in dom.pending
    /\ LET resource == StoreResourceGet(store, dom.id, src) IN
       IF ~ok
       THEN /\ dom' = [dom EXCEPT !.pending = @ \ {src}]
            /\ out' = << "Uncaught (in promise)" >>
       ELSE IF resource = NoResource \/ resource.item = Undefined
       THEN /\ dom' = [dom EXCEPT !.pending = @ \ {src}]
            /\ out' = << "resource not found or not complete" >>
       ELSE /\ dom' = [dom EXCEPT !.pending = @ \ {src},
                        !.created = Append(@, src),
                        !.src = [i \in 1..Len(dom.els) |->
                                   IF dom.els[i] = src
                                   THEN Len(dom.created) + 1 ELSE @[i]]]
            /\ Quiet
    /\ UNCHANGED << store, hash, timers, ticks, host, surv >>

\* ====================================================== updateMedia (118-150)
\* the failure handler hands the response of the request on all the same
_reflectKeep(ok, response) == response

\* To be used with Promise.all: a failed task returns undefined (159-168)
_reflect(ok, response) == IF ok THEN response ELSE NoResource

\* filter out the failed requests (136-138)
Filter(resources) == SelectSeq(resources, LAMBDA r : r # NoResource)

\* an empty list of resources is taken for resources that are not there yet
MediaCallNonEmpty(header) ==
    /\ HostIdle
    /\ surv # Absent
    /\ dom.pending = {}
    /\ LET els == Markers(surv.form) \o header
           d == [id |-> Undefined, els |-> els,
                 src |-> [i \in 1..Len(els) |-> 0],
                 pending |-> {}, created |-> <<>>]
       IN  IF surv.resources.resolved /\ surv.resources.list # <<>>
           THEN /\ host' = [op |-> "media", pc |-> "resolved", before |-> surv,
                            requests |-> <<>>, fast |-> TRUE, failed |-> FALSE,
                            nMedia |-> 0, nWrites |-> 0, ok |-> {}]
                /\ dom' = LoadMedia(surv, d)
                /\ UNCHANGED surv
           ELSE /\ host' = [op |-> "media", pc |-> "fetching", before |-> surv,
                            requests |-> GroupSrcs(els), fast |-> FALSE,
                            failed |-> FALSE,
                            nMedia |-> Len(GroupSrcs(els)), nWrites |-> 0,
                            ok |-> {}]
                /\ surv' = [surv EXCEPT !.resources = Resolved(<<>>)]
                /\ dom' = d
    /\ UNCHANGED << store, hash, timers, ticks >>
    /\ Quiet

\* the host page renders surv.form, with header as the marked elements of
\* .form-header, and calls updateMedia( survey ) (118-131)
MediaCall(header) ==
    /\ HostIdle
    /\ surv # Absent
    /\ dom.pending = {}
    /\ LET els == Markers(surv.form) \o header
           d == [id |-> Undefined, els |-> els,
                 src |-> [i \in 1..Len(els) |-> 0],
                 pending |-> {}, created |-> <<>>]
       IN  IF surv.resources.resolved
           THEN /\ host' = [op |-> "media", pc |-> "resolved", before |-> surv,
                            requests |-> <<>>, fast |-> TRUE, failed |-> FALSE,
                            nMedia |-> 0, nWrites |-> 0, ok |-> {}]
                /\ dom' = LoadMedia(surv, d)
                /\ UNCHANGED surv
           ELSE /\ host' = [op |-> "media", pc |-> "fetching", before |-> surv,
                            requests |-> GroupSrcs(els), fast |-> FALSE,
                            failed |-> FALSE,
                            nMedia |-> Len(GroupSrcs(els)), nWrites |-> 0,
                            ok |-> {}]
                /\ surv' = [surv EXCEPT !.resources = Resolved(<<>>)]
                /\ dom' = d
    /\ UNCHANGED << store, hash, timers, ticks >>
    /\ Quiet

\* every getMediaFile request has settled, those in ok with a response;
\* survey.resources becomes the responses that are left after the filter
\* and store.survey.update( survey ) is issued (133-143)
MediaFetched(ok) ==
    /\ host.op = "media" /\ host.pc = "fetching"
    /\ ok \subseteq 1..Len(host.requests)
    /\ LET resources == [k \in 1..Len(host.requests) |->
                            _reflect(k \in ok, Resource(host.requests[k]))]
       IN  surv' = [surv EXCEPT !.resources = Resolved(Filter(resources))]
    /\ host' = [host EXCEPT !.pc = "persist", !.ok = ok]
    /\ UNCHANGED << store, hash, timers, ticks, dom >>
    /\ Quiet

\* store.survey.update settles: _loadMedia on success, the catch on failure;
\* both resolve updateMedia's promise with survey (143-149)
MediaPersist(ok) ==
    /\ host.op = "media" /\ host.pc = "persist"
    /\ IF ok
       THEN /\ store' = StoreUpdate(store, surv)
            /\ dom' = LoadMedia(surv, dom)
            /\ host' = [host EXCEPT !.pc = "resolved", !.nWrites = @ + 1]
            /\ Quiet
       ELSE /\ host' = [host EXCEPT !.pc = "resolved", !.failed = TRUE]
            /\ out' = << "loadMedia failed" >>
            /\ UNCHANGED << store, dom >>
    /\ UNCHANGED << hash, timers, ticks, surv >>

\* a formreset event on a form element (72-82): the handlers run in the
\* order they were registered and the first one that throws ends the
\* dispatch. A handler does survey.$form = $( this ) and then
\* updateMedia( survey ) on what _setResetListener was handed: on a hash
\* token, a primitive, the assignment throws a TypeError ('use strict',
\* line 5); on a survey it starts a pass as MediaCall does.
FormReset(header) ==
    /\ Len(timers) > 0 /\ timers[1].listener
    /\ LET survey == timers[1].arg
           els == (IF IsSurvey(survey) THEN Markers(survey.form) ELSE <<>>)
                  \o header
           d == [id |-> Undefined, els |-> els,
                 src |-> [i \in 1..Len(els) |-> 0],
                 pending |-> {}, created |-> <<>>]
       IN  IF ~IsSurvey(survey)
           THEN /\ out' = << "TypeError" >>
                /\ UNCHANGED << host, surv, dom >>
           ELSE /\ HostIdle /\ dom.pending = {}
                /\ Quiet
                /\ IF survey.resources.resolved
                   THEN /\ host' = [op |-> "media", pc |-> "resolved",
                                    before |-> survey, requests |-> <<>>,
                                    fast |-> TRUE, failed |-> FALSE,
                                    nMedia |-> 0, nWrites |-> 0, ok |-> {}]
                        /\ dom' = LoadMedia(survey, d)
                        /\ surv' = survey
                   ELSE /\ host' = [op |-> "media", pc |-> "fetching",
                                    before |-> survey,
                                    requests |-> GroupSrcs(els),
                                    fast |-> FALSE, failed |-> FALSE,
                                    nMedia |-> Len(GroupSrcs(els)),
                                    nWrites |-> 0, ok |-> {}]
                        /\ surv' = [survey EXCEPT !.resources = Resolved(<<>>)]
                        /\ dom' = d
    /\ UNCHANGED << store, hash, timers, ticks >>

Headers == { <<>>, << "A" >> }   \* marked elements of .form-header
Sizes == {NoSize} \cup {Size(n) : n \in 0..MaxSizeBound}

Outcomes == {"ok", "404", "error"}

\* the module's own callbacks: init's chain and the timers
NextCache ==
    \/ \E id \in Ids : InitCall(id)
    \/ \E ok \in BOOLEAN : InitStoreInit(ok)
    \/ \E ok \in BOOLEAN : InitGet(ok)
    \/ \E ok \in BOOLEAN, h \in Hashes : InitFetch(ok, h)
    \/ \E ok \in BOOLEAN : InitPersist(ok)
    \/ \E ok \in BOOLEAN, h \in Hashes : InitTransformRequest(ok, h)
    \/ InitArm
    \/ \E m \in 1..MaxInits, b \in BOOLEAN : TickStart(m, b)
    \/ \E o \in Outcomes, v \in Hashes : TickHash(o, v)
    \/ \E o \in Outcomes, h \in Hashes : TickFetch(o, h)
    \/ \E ok \in BOOLEAN : TickPersist(ok)
    \/ \E ok \in BOOLEAN : TickRemove(ok)

\* the same with the host page removing surveys and flushing the cache
NextEvict ==
    \/ NextCache
    \/ \E id \in Ids, ok \in BOOLEAN : HostRemove(id, ok)
    \/ \E ok \in BOOLEAN : HostFlush(ok)

\* the calls of the host page, before any timer has fired
NextHost ==
    \/ \E id \in Ids : InitCall(id)
    \/ \E ok \in BOOLEAN : InitStoreInit(ok)
    \/ \E ok \in BOOLEAN : InitGet(ok)
    \/ \E ok \in BOOLEAN, h \in Hashes : InitFetch(ok, h)
    \/ \E ok \in BOOLEAN : InitPersist(ok)
    \/ \E ok \in BOOLEAN, h \in Hashes : InitTransformRequest(ok, h)
    \/ InitArm
    \/ \E id \in Ids, ok \in BOOLEAN : HostGet(id, ok)
    \/ \E id \in Ids, ok \in BOOLEAN : HostRemove(id, ok)
    \/ \E ok \in BOOLEAN : HostFlush(ok)
    \/ \E ms \in Sizes : MaxCall(ms)
    \/ \E ok \in BOOLEAN, n \in 0..MaxSizeBound : MaxSize(ok, n)
    \/ \E header \in Headers : MediaCall(header)
    \/ \E ok \in SUBSET (1..Cardinality(Sources)) : MediaFetched(ok)
    \/ \E ok \in BOOLEAN : MediaPersist(ok)
    \/ \E src \in Sources, ok \in BOOLEAN : Bind(src, ok)

\* the token the server answers with once the form has stopped changing
SteadyHash == "h2"
\* a request of a run either succeeds or fails for a while (offline,
\* timeout, server error)
Transient == {"ok", "error"}

\* init's chain and the timers while the server holds one version of the
\* form
NextRetry ==
    \/ \E id \in Ids : InitCall(id)
    \/ \E ok \in BOOLEAN : InitStoreInit(ok)
    \/ \E ok \in BOOLEAN : InitGet(ok)
    \/ \E ok \in BOOLEAN, h \in Hashes : InitFetch(ok, h)
    \/ \E ok \in BOOLEAN : InitPersist(ok)
    \/ \E ok \in BOOLEAN, h \in Hashes : InitTransformRequest(ok, h)
    \/ InitArm
    \/ \E m \in 1..MaxInits, b \in BOOLEAN : TickStart(m, b)
    \/ \E o \in Transient : TickHash(o, SteadyHash)
    \/ \E o \in Transient : TickFetch(o, SteadyHash)
    \/ \E ok \in BOOLEAN : TickPersist(ok)

\* setInterval keeps firing (55-61) and every request and store call of a
\* run settles in the end
RetryFairness ==
    /\ WF_vars(\E m \in 1..MaxInits : TickStart(m, FALSE))
    /\ WF_vars(\E o \in Transient : TickHash(o, SteadyHash))
    /\ WF_vars(\E o \in Transient : TickFetch(o, SteadyHash))
    /\ WF_vars(\E ok \in BOOLEAN : TickPersist(ok))

\* init, get and updateMedia of the host page together with the timers and
\* the formreset listener, while the server holds one version of the form
\* and every call but those of updateMedia succeeds
NextRefresh ==
    \/ \E id \in Ids : InitCall(id)
    \/ InitStoreInit(TRUE)
    \/ InitGet(TRUE)
    \/ \E h \in Hashes : InitFetch(TRUE, h)
    \/ InitPersist(TRUE)
    \/ InitTransformRequest(TRUE, SteadyHash)
    \/ InitArm
    \/ \E m \in 1..MaxInits, b \in BOOLEAN : TickStart(m, b)
    \/ TickHash("ok", SteadyHash)
    \/ TickFetch("ok", SteadyHash)
    \/ TickPersist(TRUE)
    \/ \E id \in Ids : HostGet(id, TRUE)
    \/ MediaCall(<<>>)
    \/ \E ok \in SUBSET (1..Cardinality(Sources)) : MediaFetched(ok)
    \/ \E ok \in BOOLEAN : MediaPersist(ok)
    \/ \E src \in Sources : Bind(src, TRUE)
    \/ FormReset(<<>>)

Next == NextEvict \/ NextHost \/ NextRetry \/ NextRefresh

Spec == Init /\ [][Next]_vars
SpecCache == Init /\ [][NextCache]_vars
SpecHost == Init /\ [][NextHost]_vars
SpecEvict == Init /\ [][NextEvict]_vars
SpecRetry == Init /\ [][NextRetry]_vars /\ RetryFairness
SpecRefresh == Init /\ [][NextRefresh]_vars
\* ==================================================================== claims
InitResolved == host.op = "init" /\ host.pc = "resolved"

\* C1: init on a populated store (the record is found) issues no network
\* request before it resolves, and has armed the timers when it resolves.
C1_HitNoNetwork ==
    (host.op = "init" /\ host.hit) =>
        /\ host.nFP = 0 /\ host.nHash = 0
        /\ host.pc = "resolved" => Len(timers) > 0

C3_ResolvesWithSurvey ==
    /\ InitResolved =>
          /\ IsSurvey(host.val)
          /\ host.val.enketoId = host.survey.enketoId
          /\ host.val.hash \in Hashes
    /\ \A m \in 1..Len(timers) :
          IsSurvey(timers[m].arg) /\ timers[m].arg.enketoId = timers[m].sid

\* C4: a run of _updateCache that received a token equal to the hash of the
\* survey's stored record fetches no form parts (and so writes nothing and
\* triggers no formupdated).
C4_MatchingTickIsQuiet ==
    \A t \in InFlight : t.pc \in {"fetch", "persist"} => ~t.matched

\* C5: when a run of _updateCache has fetched the form parts and its
\* store.survey.update has succeeded, the survey's stored record holds the
\* fetched (transformed) form and hash with resources unresolved, and this
\* is the step that triggers formupdated, once; no other step triggers it.
C5_RefreshReplacesRecord ==
    [][\A k \in 1..Len(out') : out'[k] = "formupdated" =>
          \E t \in InFlight :
             /\ t.pc = "persist"
             /\ ticks' = Step(t, Done)
             /\ Len(SelectSeq(out', LAMBDA e : e = "formupdated")) = 1
             /\ store'[SidOf(t)] # Absent
             /\ store'[SidOf(t)].form = t.parts.form
             /\ store'[SidOf(t)].hash = t.parts.hash
             /\ store'[SidOf(t)].resources = Unresolved]_vars

\* C6: a run of _updateCache that fails with status 404 and whose removal
\* succeeds leaves no record of the survey in the store; a run that fails
\* otherwise leaves the store as it was; only a 404 run removes.
C6_NotFoundEvicts ==
    [][/\ out' = << "removed from storage" >> =>
            \E t \in InFlight : /\ t.pc = "remove"
                                /\ ticks' = Step(t, Done)
                                /\ store'[SidOf(t)] = Absent
       /\ out' = << "Could not obtain latest survey" >> => store' = store
       /\ (ticks' # ticks /\ \E k \in Keys : store'[k] = Absent /\ store[k] # Absent)
             => out' = << "removed from storage" >>]_vars

\* C7: no two runs of _updateCache started by the timers of one
\* _setUpdateIntervals call are in flight together.
C7_TicksNeverOverlap ==
    \A t, u \in InFlight :
        /\ t # u => t.mon # u.mon
        /\ CopiesIn(t, ticks) = 1

\* C8: updateMaxSubmissionSize issues no getMaximumSubmissionSize request
\* when survey.maxSize has a value, zero included; only when it has none.
C8_NoFetchWhenSet ==
    host.op = "max" => (host.nMax = 0 <=> host.given.set)

\* C9: a pass of updateMedia over unresolved resources never rejects, and
\* the resources it puts on the survey, and persists, hold exactly one
\* entry for every distinct source whose request succeeded and nothing else.
Succeeded(src) == \E k \in host.ok : host.requests[k] = src
Entries(l, src) == Len(SelectSeq(l, LAMBDA r : r.kind = "resource" /\ r.url = src))
C9_OnlySuccessfulResources ==
    (host.op = "media" /\ ~host.fast) =>
        /\ host.pc # "rejected"
        /\ {host.requests[k] : k \in 1..Len(host.requests)} =
              {dom.els[i] : i \in 1..Len(dom.els)}
        /\ host.pc \in {"persist", "resolved"} =>
              /\ surv.resources.resolved
              /\ \A k \in 1..Len(surv.resources.list) :
                    surv.resources.list[k].kind = "resource"
              /\ \A src \in Sources :
                    Entries(surv.resources.list, src) =
                        IF Succeeded(src) THEN 1 ELSE 0
              /\ Len(surv.resources.list) = Cardinality(host.ok)
        /\ host.nWrites = 1 =>
              store[surv.enketoId].resources = surv.resources

C9_Witness ==
    /\ host.op = "media" /\ host.pc = "resolved" /\ ~host.failed
    /\ dom.els = << "A", "A", "B" >>
    /\ host.requests = << "A", "B" >> /\ host.ok = {2}
    /\ store[surv.enketoId].resources = Resolved(<< Resource("B") >>)

\* C10: when a pass of updateMedia fails as a whole (the persist rejects),
\* the survey it resolves with is as it was handed in: resources unresolved.
C10_FailedPassLeavesSurvey ==
    (host.op = "media" /\ host.pc = "resolved" /\ host.failed) =>
        /\ surv = host.before
        /\ ~surv.resources.resolved

\* C11: updateMedia on a survey whose resources are a list already (empty
\* and partial lists included) issues no getMediaFile request and writes
\* nothing to the store: it goes to the lookups of _loadMedia at once and
\* resolves with the survey as it was.
C11_ResolvedFastPath ==
    /\ []((host.op = "media" /\ host.before.resources.resolved) =>
            /\ host.fast /\ host.pc = "resolved" /\ ~host.failed
            /\ host.nMedia = 0 /\ host.requests = <<>> /\ host.nWrites = 0
            /\ surv = host.before)
    /\ [][(HostIdle /\ dom.pending = {} /\ surv # Absent /\ host'.op = "media"
           /\ << host, dom >>' # << host, dom >>
           /\ surv.resources.resolved) =>
            /\ store' = store
            /\ host'.pc = "resolved"
            /\ dom'.pending = {dom'.els[i] : i \in 1..Len(dom'.els)}]_vars

C11_Witness ==
    /\ host.op = "media" /\ host.fast /\ host.pc = "resolved"
    /\ host.before.resources = Resolved(<<>>)
    /\ dom.els = << "A", "A", "B" >>
    /\ dom.pending = {"A", "B"}

\* C12: none of init, get, remove, flush, updateMedia and
\* updateMaxSubmissionSize ends with its promise rejected.
C12_NothingRejects == host.pc # "rejected"

\* C13: _swapMediaSrc changes nothing in a form definition it has been
\* applied to before: every stored record x holds a transformed form, and
\* transform(x) = x.
C13_SwapIdempotent ==
    \A k \in Keys : store[k] # Absent => _swapMediaSrc(store[k]) = store[k]

\* C14: once flush, remove( survey ) or the removal of a 404 run of
\* _updateCache has completed, the survey has no record in the store, and a
\* survey without a record gets one again only by the store.survey.set of
\* init, never by a run of _updateCache.
C14_EvictedStaysAbsent ==
    [][/\ out' = << "Done! The form cache is empty now." >> =>
             \A id \in Ids : store'[id] = Absent
       /\ (host' # host /\ host'.op = "remove" /\ host'.pc = "resolved") =>
             store'[host'.survey.enketoId] = Absent
       /\ out' = << "removed from storage" >> =>
             \A t \in InFlight :
                (t.pc = "remove" /\ ticks' = Step(t, Done)) =>
                    store'[SidOf(t)] = Absent
       /\ \A id \in Ids :
             (store[id] = Absent /\ store'[id] # Absent) =>
                 (host.op = "init" /\ host.pc = "persist"
                    /\ host'.pc = "hashreq")]_vars

\* C15: with the timers armed and no call of init and no run of
\* _updateCache under way, the module's hash (what the next run compares the
\* server's token with) is the hash of the survey's stored record.
C15_HashIsStoredHash ==
    (Len(timers) > 0 /\ ticks = EmptyBag /\ HostIdle) =>
        \A m \in 1..Len(timers) :
            store[timers[m].sid] # Absent =>
                hash = store[timers[m].sid].hash

\* C16: a pass of updateMedia on a survey without resources issues one
\* getMediaFile request for every distinct data-offline-src value of the
\* rendered elements, however many elements carry it, and all of them in the
\* call itself: none is added while the pass waits for them.
C16_OneRequestPerSource ==
    /\ []((host.op = "media" /\ ~host.fast) =>
            /\ host.nMedia = Cardinality({dom.els[i] : i \in 1..Len(dom.els)})
            /\ Len(host.requests) = host.nMedia
            /\ \A j, k \in 1..Len(host.requests) :
                  host.requests[j] = host.requests[k] => j = k
            /\ {host.requests[k] : k \in 1..Len(host.requests)} =
               {dom.els[i] : i \in 1..Len(dom.els)})
    /\ [][(host.op = "media" /\ host.pc \in {"fetching", "persist"}) =>
            /\ host'.requests = host.requests
            /\ host'.nMedia = host.nMedia]_vars

C16_Witness ==
    /\ host.op = "media" /\ ~host.fast /\ host.pc = "fetching"
    /\ dom.els = << "A", "A", "B", "A" >>
    /\ host.requests = << "A", "B" >>
    /\ host.nMedia = 2

\* C17: when the lookup of a group's src is answered with a complete
\* resource, one object URL is created for that src and every element of the
\* group gets that same URL, the other elements keeping theirs; when it is
\* answered with nothing, no element changes, nothing is created and the
\* only effect is the log line. Every object URL an element holds was
\* created for that element's src, once per lookup.
C17_BindPerGroup ==
    /\ [](\A i \in 1..Len(dom.els) :
            dom.src[i] # 0 =>
               /\ dom.src[i] \in 1..Len(dom.created)
               /\ dom.created[dom.src[i]] = dom.els[i]
               /\ \A j \in 1..Len(dom.els) :
                     dom.els[j] = dom.els[i] => dom.src[j] = dom.src[i])
    /\ [](\A j, k \in 1..Len(dom.created) :
            dom.created[j] = dom.created[k] => j = k)
    /\ [][\A src \in Sources :
            (/\ src \in dom.pending
             /\ dom'.pending = dom.pending \ {src}
             /\ out' # << "Uncaught (in promise)" >>) =>
               LET resource == StoreResourceGet(store, dom.id, src) IN
               IF resource # NoResource /\ resource.item # Undefined
               THEN /\ dom'.created = Append(dom.created, src)
                    /\ \A i \in 1..Len(dom.els) :
                          dom'.src[i] = IF dom.els[i] = src
                                        THEN Len(dom'.created)
                                        ELSE dom.src[i]
                    /\ out' = <<>>
               ELSE /\ dom'.created = dom.created
                    /\ dom'.src = dom.src
                    /\ out' = << "resource not found or not complete" >>
                    /\ host' = host]_vars

C17_Witness ==
    /\ dom.els = << "A", "A", "B" >>
    /\ dom.src = << 1, 1, 0 >>
    /\ dom.created = << "A" >>
    /\ dom.pending = {}
    /\ out = << "resource not found or not complete" >>

\* C18: every form in the store, written by the store.survey.set of init or
\* by the store.survey.update of a run of _updateCache, is a transformed
\* one: each src attribute left in it is empty.
C18_StoredFormsTransformed ==
    \A k \in Keys :
        store[k] # Absent =>
            \A i \in 1..Len(store[k].form) :
                store[k].form[i].pre = 0 => store[k].form[i].url = ""

C18_Witness ==
    /\ store["s1"] # Absent /\ store["s1"].form # <<>>
    /\ store[Undefined] # Absent /\ store[Undefined].form # <<>>
    /\ out = << "Survey is now updated in the store", "formupdated" >>

\* C19: with the timers armed and the server holding one version of the
\* form, if from some point on no run of _updateCache fails, then from some
\* point on the survey's stored record has the server's hash for good.
C19_ConvergesToServerHash ==
    (/\ <>(Len(timers) > 0)
     /\ <>[](out # << "Could not obtain latest survey" >>)) =>
        <>[](store["s1"] # Absent /\ store["s1"].hash = SteadyHash)

====
